---- MODULE Spec2Model ----
(***************************************************************************)
(* Model of src/server.py (od-smart-drafter): the versioned-document       *)
(* engine behind the tools draft_docx_od and add_line_item.  The bucket    *)
(* is the only shared state; every tool invocation lists the bucket,       *)
(* downloads the latest revision of a quote, checks for a duplicate edit,  *)
(* and uploads a new revision under the next version number.               *)
(*                                                                         *)
(* Strings are sequences of one-character strings, so that the file-name   *)
(* pattern, str.lower() and the substring tests are computed, not assumed. *)
(***************************************************************************)
EXTENDS Integers, Sequences, FiniteSets, TLC

(***************************************************************************)
(* Bounds of the model.                                                    *)
(***************************************************************************)
\* tool invocations started in one behaviour, over all callers
MaxCalls == 2
\* store calls (list, download, upload) that fail in one behaviour
MaxFaults == 1

\* The tool invocations: independent requests against the same bucket.
Procs == 1..MaxCalls

(***************************************************************************)
(* Strings.                                                                *)
(***************************************************************************)
Digits == <<"0", "1", "2", "3", "4", "5", "6", "7", "8", "9">>

IsDigit(c) == \E i \in DOMAIN Digits : Digits[i] = c

DigitVal(c) == (CHOOSE i \in DOMAIN Digits : Digits[i] = c) - 1

\* int(s) of a non-empty string of decimal digits (leading zeros accepted)
RECURSIVE ParseInt(_)
ParseInt(s) ==
  IF s = <<>> THEN 0
  ELSE ParseInt(SubSeq(s, 1, Len(s) - 1)) * 10 + DigitVal(s[Len(s)])

\* the f-string rendering of a non-negative int
RECURSIVE FormatInt(_)
FormatInt(n) ==
  IF n < 10 THEN <<Digits[n + 1]>>
  ELSE FormatInt(n \div 10) \o <<Digits[(n % 10) + 1]>>

\* str.lower() on the letters the model uses
LowerChar(c) ==
  CASE c = "A" -> "a"
    [] c = "R" -> "r"
    [] c = "N" -> "n"
    [] c = "W" -> "w"
    [] OTHER -> c

Lower(s) == [i \in DOMAIN s |-> LowerChar(s[i])]

\* Python's  needle in hay  on strings
Contains(hay, needle) ==
  \E i \in 0..(Len(hay) - Len(needle)) : SubSeq(hay, i + 1, i + Len(needle)) = needle

(***************************************************************************)
(* File names: "{quote}.docx" and "{quote}_v{n}.docx".                     *)
(***************************************************************************)
Ext == <<".", "d", "o", "c", "x">>

NoMatch == -1

\* SuffixVersion with (.*_v(\d+))? : anything may stand before the last "_v"
SuffixVersionAnyPrefix(mid) ==
  IF mid = <<>> THEN 0
  ELSE LET starts == {k \in 1..(Len(mid) - 2) :
                        /\ mid[k] = "_"
                        /\ mid[k + 1] = "v"
                        /\ \A i \in (k + 2)..Len(mid) : IsDigit(mid[i])}
       IN IF starts = {} THEN NoMatch
          ELSE ParseInt(SubSeq(mid, (CHOOSE k \in starts : \A j \in starts : j <= k) + 2,
                               Len(mid)))

\* SuffixVersion with \d in place of \d+ : one digit only
SuffixVersionOneDigit(mid) ==
  IF mid = <<>> THEN 0
  ELSE IF /\ Len(mid) = 3
          /\ mid[1] = "_"
          /\ mid[2] = "v"
          /\ IsDigit(mid[3])
       THEN ParseInt(SubSeq(mid, 3, Len(mid)))
       ELSE NoMatch

\* (_v(\d+))? : the part of a name between the quote number and ".docx";
\* the version it stands for, or NoMatch
SuffixVersion(mid) ==
  IF mid = <<>> THEN 0
  ELSE IF /\ Len(mid) >= 3
          /\ mid[1] = "_"
          /\ mid[2] = "v"
          /\ \A i \in 3..Len(mid) : IsDigit(mid[i])
       THEN ParseInt(SubSeq(mid, 3, Len(mid)))
       ELSE NoMatch

\* pattern.match(name) for ^{re.escape(quote_number)}(_v(\d+))?\.docx$ and the
\* version_num read from the match; NoMatch when the pattern does not match
PatternVersion(quote_number, name) ==
  LET n == Len(name)
      lq == Len(quote_number)
  IN IF /\ n >= lq + Len(Ext)
        /\ SubSeq(name, 1, lq) = quote_number
        /\ SubSeq(name, n - Len(Ext) + 1, n) = Ext
     THEN SuffixVersion(SubSeq(name, lq + 1, n - Len(Ext)))
     ELSE NoMatch

\* candidates of get_latest_file_content: the listed names of this quote
Candidates(quote_number, names) ==
  {name \in names : PatternVersion(quote_number, name) # NoMatch}

Max(S) == CHOOSE x \in S : \A y \in S : y <= x

\* the names the descending sort may put first: those of the highest version
\* (the order of the listing decides between equal versions)
LatestNames(quote_number, names) ==
  LET c == Candidates(quote_number, names)
      top == Max({PatternVersion(quote_number, name) : name \in c})
  IN {name \in c : PatternVersion(quote_number, name) = top}

\* max_v of upload_new_version: starts at 0, raised by every matching name
MaxV(quote_number, names) ==
  Max({0} \cup {PatternVersion(quote_number, name) : name \in Candidates(quote_number, names)})

\* next_v as the lowest positive number no listed name holds
NextVFillsGap(quote_number, names) ==
  LET used == {PatternVersion(quote_number, name) : name \in Candidates(quote_number, names)}
  IN CHOOSE n \in 1..(MaxV(quote_number, names) + 1) :
       /\ n \notin used
       /\ \A m \in 1..(n - 1) : m \in used

NextV(quote_number, names) == MaxV(quote_number, names) + 1

NewFilename(quote_number, next_v) ==
  quote_number \o <<"_", "v">> \o FormatInt(next_v) \o Ext

(***************************************************************************)
(* Documents.  A .docx is its body paragraphs (style, text) and its        *)
(* tables; a table has a column count and rows of cell texts.  Bytes that  *)
(* python-docx cannot open are the kind "corrupt".                         *)
(***************************************************************************)
Docx(paras, tables) == [kind |-> "docx", paras |-> paras, tables |-> tables]

Para(style, text) == [style |-> style, text |-> text]

Blank == Docx(<<>>, <<>>)

Corrupt == [kind |-> "corrupt", paras |-> <<>>, tables |-> <<>>]

\* a pricing table with its header row
Priced == Docx(<<>>, <<[cols |-> 3, rows |-> <<<<<<"i">>, <<"d">>, <<"p">>>>>>]>>)

\* a two-column table: row.cells[2] does not exist
Narrow == Docx(<<>>, <<[cols |-> 2, rows |-> <<<<<<"i">>, <<"p">>>>>>]>>)

\* a document that already mentions the clause "Ar", in other letter case
Mentions == Docx(<<Para("Normal", <<"a", "R">>)>>, <<>>)

(***************************************************************************)
(* data/clauses.json as load_clauses() returns it: titles in file order,   *)
(* each with its body.  The second title is contained in the first.        *)
(***************************************************************************)
load_clauses ==
  << [title |-> <<"A", "r">>, body |-> <<"t">>],
     [title |-> <<"R">>, body |-> <<"u">>] >>

\* "no key": next(..., None)
NoKey == <<>>

\* FoundKey with the first title, not None, as the default of next(...)
FoundKeyDefault(clause_name) ==
  LET db == load_clauses
      hits == {i \in DOMAIN db : Contains(Lower(clause_name), Lower(db[i].title))}
  IN IF hits = {} THEN db[1].title
     ELSE db[CHOOSE i \in hits : \A j \in hits : i <= j].title

\* next((k for k in clause_db.keys() if k.lower() in clause_name.lower()), None)
FoundKey(clause_name) ==
  LET db == load_clauses
      hits == {i \in DOMAIN db : Contains(Lower(clause_name), Lower(db[i].title))}
  IN IF hits = {} THEN NoKey
     ELSE db[CHOOSE i \in hits : \A j \in hits : i <= j].title

ClauseBody(key) ==
  LET db == load_clauses
  IN db[CHOOSE i \in DOMAIN db : db[i].title = key].body

\* mutant of clause_exists: compares without lowering the paragraph text
clause_exists_cased(doc, clause_title) ==
  \E i \in DOMAIN doc.paras : Contains(doc.paras[i].text, Lower(clause_title))

clause_exists(doc, clause_title) ==
  \E i \in DOMAIN doc.paras : Contains(Lower(doc.paras[i].text), Lower(clause_title))

\* doc.add_heading(found_key, level=2); doc.add_paragraph(clause_db[found_key])
AddClause(doc, key) ==
  [doc EXCEPT !.paras = @ \o <<Para("Heading 2", key), Para("Normal", ClauseBody(key))>>]

\* row_exists: "yes", "no", or "raise" (IndexError on cells[2])
row_exists(doc, item_name, price) ==
  IF doc.tables = <<>> THEN "no"
  ELSE LET table == doc.tables[1]
       IN IF table.rows = <<>> THEN "no"
          ELSE IF table.cols < 3 THEN "raise"
          ELSE IF \E r \in DOMAIN table.rows :
                    /\ Contains(Lower(table.rows[r][1]), Lower(item_name))
                    /\ Contains(Lower(table.rows[r][3]), Lower(price))
               THEN "yes"
               ELSE "no"

\* table.add_row() and the three cell assignments (the table has >= 3 columns)
AddRow(doc, item_name, description, price) ==
  LET table == doc.tables[1]
      row == [c \in 1..table.cols |->
                CASE c = 1 -> item_name
                  [] c = 2 -> description
                  [] c = 3 -> price
                  [] OTHER -> <<>>]
  IN [doc EXCEPT !.tables[1].rows = @ \o <<row>>]

(***************************************************************************)
(* Inputs of the tools and contents of the bucket before the first call.   *)
(***************************************************************************)
Q == <<"Q">>

\* a quote number that itself ends in a version suffix
Qv1 == <<"Q", "_", "v", "1">>

Quotes == {Q, Qv1}

ClauseNames == {<<"a", "r">>, <<"R">>, <<"x">>}

LineItems == {[item_name |-> <<"W">>, description |-> <<"d">>, price |-> <<"p">>]}

Name(quote_number, suffix) == quote_number \o suffix \o Ext

InitStores ==
  { <<>>,
    Name(Q, <<>>) :> Blank,
    Name(Q, <<>>) :> Priced,
    Name(Q, <<>>) :> Narrow,
    Name(Q, <<>>) :> Corrupt,
    Name(Q, <<>>) :> Mentions,
    (Name(Q, <<>>) :> Blank) @@ (Name(Q, <<"_", "v", "1">>) :> Blank)
       @@ (Name(Q, <<"_", "v", "3">>) :> Priced) @@ (Name(Q, <<"_", "v", "x">>) :> Corrupt),
    (Name(Q, <<>>) :> Blank) @@ (Name(Q, <<"_", "v", "0", "1">>) :> Priced)
       @@ (Name(Q, <<"_", "v", "1">>) :> Blank) }

(***************************************************************************)
(* State.                                                                  *)
(***************************************************************************)
VARIABLES
  store,    \* the bucket "od-files": object name -> content
  pc,       \* where each invocation stands
  args,     \* the arguments of each invocation
  loc,      \* its local variables
  result,   \* what it returned
  obs,      \* what it did to the store, recorded for the properties
  faults    \* store calls that have failed so far

vars == <<store, pc, args, loc, result, obs, faults>>

NoArgs ==
  [tool |-> "none", quote_number |-> <<>>, clause_name |-> <<>>,
   item_name |-> <<>>, description |-> <<>>, price |-> <<>>]

NoLoc ==
  [found_key |-> NoKey, latest_name |-> <<>>, stream |-> Blank, out |-> Blank,
   new_filename |-> <<>>]

NoResult ==
  [kind |-> "none", isError |-> FALSE, detail |-> "", ref |-> <<>>, options |-> <<>>]

NoObs ==
  [resolved |-> {}, allocated |-> {}, lists |-> 0, uploads |-> 0, wrote |-> {},
   gate |-> "none", why |-> "none", before |-> {}]

Init ==
  /\ store \in InitStores
  /\ pc = [p \in Procs |-> "idle"]
  /\ args = [p \in Procs |-> NoArgs]
  /\ loc = [p \in Procs |-> NoLoc]
  /\ result = [p \in Procs |-> NoResult]
  /\ obs = [p \in Procs |-> NoObs]
  /\ faults = 0

\* the value a tool returns
Outcome(kind, isError, detail, ref) ==
  [kind |-> kind, isError |-> isError, detail |-> detail, ref |-> ref, options |-> <<>>]

\* add_line_item returns plain strings; draft_docx_od marks failures isError
Fails(p, kind, detail) ==
  Outcome(kind, args[p].tool = "draft_docx_od", detail, <<>>)

Return(p, r) ==
  /\ result' = [result EXCEPT ![p] = r]
  /\ pc' = [pc EXCEPT ![p] = "done"]

\* invocations are interchangeable: they start in the order of their numbers
MayStart(p) ==
  /\ pc[p] = "idle"
  /\ \A o \in Procs : o < p => pc[o] # "idle"

(***************************************************************************)
(* The store's upload with file_options upsert "false": an existing key    *)
(* is left as it is and the call raises.                                   *)
(***************************************************************************)
upload_upsert(s, path, file) == [store |-> (path :> file) @@ s, raised |-> FALSE]

upload(s, path, file) ==
  IF path \in DOMAIN s
  THEN [store |-> s, raised |-> TRUE]
  ELSE [store |-> (path :> file) @@ s, raised |-> FALSE]

(***************************************************************************)
(* draft_docx_od, step 1: validate the clause name (no store access).      *)
(***************************************************************************)
Draft(p) ==
  /\ MayStart(p)
  /\ \E q \in Quotes, c \in ClauseNames :
       /\ args' = [args EXCEPT ![p] = [NoArgs EXCEPT !.tool = "draft_docx_od",
                                                     !.quote_number = q,
                                                     !.clause_name = c]]
       /\ loc' = [loc EXCEPT ![p].found_key = FoundKey(c)]
       /\ obs' = [obs EXCEPT ![p].before = DOMAIN store]
       /\ IF FoundKey(c) = NoKey
          THEN Return(p, [Outcome("ClauseNotFound", TRUE, "not found", <<>>)
                            EXCEPT !.options = [i \in DOMAIN load_clauses |->
                                                  load_clauses[i].title]])
          ELSE /\ pc' = [pc EXCEPT ![p] = "resolve"]
               /\ UNCHANGED result
  /\ UNCHANGED <<store, faults>>

(***************************************************************************)
(* add_line_item: the parameter check is commented out; it starts at the   *)
(* file lookup.                                                            *)
(***************************************************************************)
LineItem(p) ==
  /\ MayStart(p)
  /\ \E q \in Quotes, it \in LineItems :
       args' = [args EXCEPT ![p] = [NoArgs EXCEPT !.tool = "add_line_item",
                                                   !.quote_number = q,
                                                   !.item_name = it.item_name,
                                                   !.description = it.description,
                                                   !.price = it.price]]
  /\ obs' = [obs EXCEPT ![p].before = DOMAIN store]
  /\ pc' = [pc EXCEPT ![p] = "resolve"]
  /\ UNCHANGED <<store, loc, result, faults>>

\* ListLatest in a tool without "if not stream: return": Document(None) opens
\* python-docx's empty default document and the edit goes on
ListLatestNoCheck(p) ==
  /\ pc[p] = "resolve"
  /\ LET names == DOMAIN store
         q == args[p].quote_number
     IN IF Candidates(q, names) = {}
        THEN /\ obs' = [obs EXCEPT ![p].lists = @ + 1, ![p].resolved = names,
                                   ![p].why = "empty"]
             /\ loc' = [loc EXCEPT ![p].stream = Blank]
             /\ pc' = [pc EXCEPT ![p] = "edit"]
        ELSE /\ obs' = [obs EXCEPT ![p].lists = @ + 1, ![p].resolved = names]
             /\ \E name \in LatestNames(q, names) :
                  loc' = [loc EXCEPT ![p].latest_name = name]
             /\ pc' = [pc EXCEPT ![p] = "download"]
  /\ UNCHANGED <<store, args, result, faults>>

(***************************************************************************)
(* get_latest_file_content: list the bucket, pick the highest version.     *)
(* (None, None) makes the tool return its "no files" message.              *)
(***************************************************************************)
ListLatest(p) ==
  /\ pc[p] = "resolve"
  /\ LET names == DOMAIN store
         q == args[p].quote_number
     IN IF Candidates(q, names) = {}
        THEN /\ obs' = [obs EXCEPT ![p].lists = @ + 1, ![p].resolved = names,
                                   ![p].why = "empty"]
             /\ Return(p, Fails(p, "NoFiles", "not found"))
             /\ UNCHANGED loc
        ELSE /\ obs' = [obs EXCEPT ![p].lists = @ + 1, ![p].resolved = names]
             /\ \E name \in LatestNames(q, names) :
                  loc' = [loc EXCEPT ![p].latest_name = name]
             /\ pc' = [pc EXCEPT ![p] = "download"]
             /\ UNCHANGED result
  /\ UNCHANGED <<store, args, faults>>

\* list() raises: caught by the except of get_latest_file_content
ListLatestFails(p) ==
  /\ pc[p] = "resolve"
  /\ faults < MaxFaults
  /\ faults' = faults + 1
  /\ obs' = [obs EXCEPT ![p].lists = @ + 1, ![p].why = "list failed"]
  /\ Return(p, Fails(p, "NoFiles", "not found"))
  /\ UNCHANGED <<store, args, loc>>

Download(p) ==
  /\ pc[p] = "download"
  /\ loc' = [loc EXCEPT ![p].stream = store[loc[p].latest_name]]
  /\ pc' = [pc EXCEPT ![p] = "edit"]
  /\ UNCHANGED <<store, args, result, obs, faults>>

\* download() raises: caught by the same except
DownloadFails(p) ==
  /\ pc[p] = "download"
  /\ faults < MaxFaults
  /\ faults' = faults + 1
  /\ obs' = [obs EXCEPT ![p].why = "download failed"]
  /\ Return(p, Fails(p, "NoFiles", "not found"))
  /\ UNCHANGED <<store, args, loc>>

\* EditClause without the return of the idempotency check
EditClauseUngated(p) ==
  /\ pc[p] = "edit"
  /\ args[p].tool = "draft_docx_od"
  /\ LET doc == loc[p].stream
         key == loc[p].found_key
     IN IF doc.kind = "corrupt"
        THEN /\ Return(p, Fails(p, "Error", "bad document"))
             /\ UNCHANGED <<loc, obs>>
        ELSE /\ obs' = [obs EXCEPT ![p].gate =
                          IF clause_exists(doc, key) THEN "present" ELSE "absent"]
             /\ loc' = [loc EXCEPT ![p].out = AddClause(doc, key)]
             /\ pc' = [pc EXCEPT ![p] = "allocate"]
             /\ UNCHANGED result
  /\ UNCHANGED <<store, args, faults>>

(***************************************************************************)
(* draft_docx_od, step 3: open the document, the idempotency check, the    *)
(* edit.  It runs after the await of ctx.info, so other invocations may    *)
(* have run since the download.                                            *)
(***************************************************************************)
EditClause(p) ==
  /\ pc[p] = "edit"
  /\ args[p].tool = "draft_docx_od"
  /\ LET doc == loc[p].stream
         key == loc[p].found_key
     IN IF doc.kind = "corrupt"
        THEN /\ Return(p, Fails(p, "Error", "bad document"))
             /\ UNCHANGED <<loc, obs>>
        ELSE IF clause_exists(doc, key)
        THEN /\ obs' = [obs EXCEPT ![p].gate = "present"]
             /\ Return(p, Outcome("AlreadyExists", FALSE, "no changes", loc[p].latest_name))
             /\ UNCHANGED loc
        ELSE /\ obs' = [obs EXCEPT ![p].gate = "absent"]
             /\ loc' = [loc EXCEPT ![p].out = AddClause(doc, key)]
             /\ pc' = [pc EXCEPT ![p] = "allocate"]
             /\ UNCHANGED result
  /\ UNCHANGED <<store, args, faults>>

\* EditRow without "if not doc.tables: return": doc.tables[0] raises instead
EditRowNoTableCheck(p) ==
  /\ pc[p] = "edit"
  /\ args[p].tool = "add_line_item"
  /\ LET doc == loc[p].stream
         a == args[p]
         found == row_exists(doc, a.item_name, a.price)
     IN IF doc.kind = "corrupt"
        THEN /\ Return(p, Fails(p, "Error", "bad document"))
             /\ UNCHANGED <<loc, obs>>
        ELSE IF found = "raise"
        THEN /\ Return(p, Fails(p, "Error", "list index out of range"))
             /\ UNCHANGED <<loc, obs>>
        ELSE IF found = "yes"
        THEN /\ obs' = [obs EXCEPT ![p].gate = "present"]
             /\ Return(p, Outcome("AlreadyExists", FALSE, "no changes", loc[p].latest_name))
             /\ UNCHANGED loc
        ELSE IF doc.tables = <<>> \/ doc.tables[1].cols < 3
        THEN /\ obs' = [obs EXCEPT ![p].gate = "absent"]
             /\ Return(p, Fails(p, "Error", "list index out of range"))
             /\ UNCHANGED loc
        ELSE /\ obs' = [obs EXCEPT ![p].gate = "absent"]
             /\ loc' = [loc EXCEPT ![p].out =
                          AddRow(doc, a.item_name, a.description, a.price)]
             /\ pc' = [pc EXCEPT ![p] = "allocate"]
             /\ UNCHANGED result
  /\ UNCHANGED <<store, args, faults>>

(***************************************************************************)
(* add_line_item, step 3.                                                  *)
(***************************************************************************)
EditRow(p) ==
  /\ pc[p] = "edit"
  /\ args[p].tool = "add_line_item"
  /\ LET doc == loc[p].stream
         a == args[p]
         found == row_exists(doc, a.item_name, a.price)
     IN IF doc.kind = "corrupt"
        THEN /\ Return(p, Fails(p, "Error", "bad document"))
             /\ UNCHANGED <<loc, obs>>
        ELSE IF doc.tables = <<>>
        THEN /\ Return(p, Fails(p, "NoTables", "no tables"))
             /\ UNCHANGED <<loc, obs>>
        ELSE IF found = "raise"
        THEN /\ Return(p, Fails(p, "Error", "list index out of range"))
             /\ UNCHANGED <<loc, obs>>
        ELSE IF found = "yes"
        THEN /\ obs' = [obs EXCEPT ![p].gate = "present"]
             /\ Return(p, Outcome("AlreadyExists", FALSE, "no changes", loc[p].latest_name))
             /\ UNCHANGED loc
        ELSE IF doc.tables[1].cols < 3
        THEN /\ obs' = [obs EXCEPT ![p].gate = "absent"]
             /\ Return(p, Fails(p, "Error", "list index out of range"))
             /\ UNCHANGED loc
        ELSE /\ obs' = [obs EXCEPT ![p].gate = "absent"]
             /\ loc' = [loc EXCEPT ![p].out =
                          AddRow(doc, a.item_name, a.description, a.price)]
             /\ pc' = [pc EXCEPT ![p] = "allocate"]
             /\ UNCHANGED result
  /\ UNCHANGED <<store, args, faults>>

(***************************************************************************)
(* upload_new_version: list the bucket again, take max_v + 1, upload.      *)
(* Every exception becomes "Upload failed: ...", which the tool returns    *)
(* as its error.                                                           *)
(***************************************************************************)
ListNext(p) ==
  /\ pc[p] = "allocate"
  /\ LET names == DOMAIN store
         q == args[p].quote_number
     IN /\ obs' = [obs EXCEPT ![p].lists = @ + 1, ![p].allocated = names]
        /\ loc' = [loc EXCEPT ![p].new_filename = NewFilename(q, NextV(q, names))]
  /\ pc' = [pc EXCEPT ![p] = "upload"]
  /\ UNCHANGED <<store, args, result, faults>>

ListNextFails(p) ==
  /\ pc[p] = "allocate"
  /\ faults < MaxFaults
  /\ faults' = faults + 1
  /\ obs' = [obs EXCEPT ![p].lists = @ + 1]
  /\ Return(p, Fails(p, "Error", "upload failed: list"))
  /\ UNCHANGED <<store, args, loc>>

\* the upload call answers: the object is created, or the key exists
Upload(p) ==
  /\ pc[p] = "upload"
  /\ LET path == loc[p].new_filename
         r == upload(store, path, loc[p].out)
     IN /\ store' = r.store
        /\ IF r.raised
           THEN /\ obs' = [obs EXCEPT ![p].uploads = @ + 1]
                /\ Return(p, Fails(p, "Error", "upload failed: duplicate"))
           ELSE /\ obs' = [obs EXCEPT ![p].uploads = @ + 1, ![p].wrote = @ \cup {path}]
                /\ Return(p, Outcome("Applied", FALSE, "new version created", path))
  /\ UNCHANGED <<args, loc, faults>>

\* the upload call fails before the store has acted
UploadFails(p) ==
  /\ pc[p] = "upload"
  /\ faults < MaxFaults
  /\ faults' = faults + 1
  /\ obs' = [obs EXCEPT ![p].uploads = @ + 1]
  /\ Return(p, Fails(p, "Error", "upload failed: request"))
  /\ UNCHANGED <<store, args, loc>>

\* the upload call times out after the store has acted on it
UploadTimesOut(p) ==
  /\ pc[p] = "upload"
  /\ faults < MaxFaults
  /\ faults' = faults + 1
  /\ LET path == loc[p].new_filename
         r == upload(store, path, loc[p].out)
     IN /\ store' = r.store
        /\ obs' = [obs EXCEPT ![p].uploads = @ + 1,
                              ![p].wrote = IF r.raised THEN @ ELSE @ \cup {path}]
  /\ Return(p, Fails(p, "Error", "upload failed: timeout"))
  /\ UNCHANGED <<args, loc>>

(***************************************************************************)
(* Specifications.                                                         *)
(***************************************************************************)
Step(p) ==
  \/ Draft(p)
  \/ LineItem(p)
  \/ ListLatest(p)
  \/ Download(p)
  \/ EditClause(p)
  \/ EditRow(p)
  \/ ListNext(p)
  \/ Upload(p)

Fault(p) ==
  \/ ListLatestFails(p)
  \/ DownloadFails(p)
  \/ ListNextFails(p)
  \/ UploadFails(p)
  \/ UploadTimesOut(p)

\* concurrent invocations against a store whose calls may fail
Next == \E p \in Procs : Step(p) \/ Fault(p)

Spec == Init /\ [][Next]_vars

\* one caller, one invocation after the other, no store failure
InSequence(p) == \A o \in Procs : o < p => pc[o] = "done"

NextSeq == \E p \in Procs : InSequence(p) /\ Step(p)

SpecSeq == Init /\ [][NextSeq]_vars

(***************************************************************************)
(* Listings.  The bucket is filled from outside the engine, so a listing   *)
(* may hold any names.  Here the bucket starts as any subset of a pool of  *)
(* names around the quote Q: the original, revisions with a gap and up to  *)
(* 9, a suffix with a leading zero, a suffix that is no number.            *)
(***************************************************************************)
NamePool ==
  { Name(Q, <<>>),
    Name(Q, <<"_", "v", "1">>),
    Name(Q, <<"_", "v", "3">>),
    Name(Q, <<"_", "v", "9">>),
    Name(Q, <<"_", "v", "0", "1">>),
    Name(Q, <<"_", "v", "x">>) }

InitListings ==
  /\ \E names \in SUBSET NamePool :
       store = [n \in names |-> IF n = Name(Q, <<"_", "v", "3">>) THEN Priced ELSE Blank]
  /\ pc = [p \in Procs |-> "idle"]
  /\ args = [p \in Procs |-> NoArgs]
  /\ loc = [p \in Procs |-> NoLoc]
  /\ result = [p \in Procs |-> NoResult]
  /\ obs = [p \in Procs |-> NoObs]
  /\ faults = 0

\* one caller, one invocation after the other, on any such bucket
SpecListings == InitListings /\ [][NextSeq]_vars

(***************************************************************************)
(* Properties.                                                             *)
(***************************************************************************)
Done(p) == pc[p] = "done"

\* the revision numbers a listing holds for a quote
Versions(quote_number, names) ==
  {PatternVersion(quote_number, name) : name \in Candidates(quote_number, names)}

\* two invocations ask for the same semantic change of the same quote
SameChange(p, o) ==
  /\ args[p].tool = args[o].tool
  /\ args[p].tool # "none"
  /\ args[p].quote_number = args[o].quote_number
  /\ loc[p].found_key = loc[o].found_key
  /\ args[p].item_name = args[o].item_name
  /\ args[p].price = args[o].price

\* invocation p and the next one are the same draft_docx_od call, and p found
\* the latest revision without the clause
TwiceInSequence(p) ==
  /\ p + 1 \in Procs
  /\ Done(p)
  /\ Done(p + 1)
  /\ args[p].tool = "draft_docx_od"
  /\ args[p + 1] = args[p]
  /\ obs[p].gate = "absent"

Heading(key) == Para("Heading 2", key)

\* C1: draft_docx_od(base, clause) twice in sequence, on a latest revision
\* without the clause, with no other writer and no store failure: the first
\* call is Applied, the second is the "already exists" no-op and uploads
\* nothing; the store gains exactly one object, which the second call resolves
\* as the latest revision and which is the first call's download plus the
\* clause, once.
C1_Idempotent ==
  \A p \in Procs :
    TwiceInSequence(p) =>
      LET ref == result[p].ref
          key == loc[p].found_key
      IN /\ result[p].kind = "Applied"
         /\ result[p + 1].kind = "AlreadyExists"
         /\ obs[p + 1].uploads = 0
         /\ obs[p + 1].wrote = {}
         /\ ref \notin obs[p].before
         /\ obs[p + 1].before = obs[p].before \cup {ref}
         /\ loc[p + 1].latest_name = ref
         /\ store[ref].paras =
              loc[p].stream.paras \o <<Heading(key), Para("Normal", ClauseBody(key))>>
         /\ Cardinality({i \in DOMAIN store[ref].paras :
                           store[ref].paras[i] = Heading(key)}) = 1

C1_Witness ==
  \E p \in Procs :
    /\ TwiceInSequence(p)
    /\ result[p].kind = "Applied"
    /\ result[p + 1].kind = "AlreadyExists"
    /\ result[p + 1].ref = result[p].ref

\* C2: an invocation uploads only after its own idempotency check found the
\* edit absent; one whose check found it present never reaches
\* upload_new_version.
C2_UploadOnlyAfterGate ==
  \A p \in Procs :
    /\ (obs[p].uploads > 0 \/ obs[p].wrote # {} \/ pc[p] \in {"allocate", "upload"})
         => obs[p].gate = "absent"
    /\ obs[p].gate = "present"
         => /\ Done(p)
            /\ result[p].kind = "AlreadyExists"
            /\ obs[p].uploads = 0
            /\ obs[p].lists = 1

C2_Witness ==
  \E p, o \in Procs :
    /\ obs[p].gate = "present"
    /\ result[p].kind = "AlreadyExists"
    /\ obs[o].gate = "absent"
    /\ obs[o].uploads = 1

\* C3: no object name is written twice: the objects two invocations wrote are
\* different names, each still holds what its writer uploaded, and an
\* invocation whose upload met an existing name wrote nothing and returned
\* the error.
C3_NoKeyWrittenTwice ==
  \A p \in Procs :
    /\ \A o \in Procs : o # p => obs[p].wrote \cap obs[o].wrote = {}
    /\ \A n \in obs[p].wrote :
         /\ n \in DOMAIN store
         /\ store[n] = loc[p].out
         /\ n \notin obs[p].before
    /\ (Done(p) /\ obs[p].uploads = 1 /\ obs[p].wrote = {})
         => /\ result[p].kind = "Error"
            /\ result[p].ref = <<>>

C3_Witness ==
  \E p, o \in Procs :
    /\ p # o
    /\ loc[p].new_filename = loc[o].new_filename
    /\ result[p].kind = "Applied"
    /\ result[o].kind = "Error"
    /\ result[o].detail = "upload failed: duplicate"
    /\ store[loc[o].new_filename] = loc[p].out
    /\ loc[o].out # loc[p].out

\* two draft_docx_od invocations of the same quote and clause that both listed
\* only revision 0 when they resolved the latest file, both found the clause
\* absent, and ran to their end with no store failure
SameListingRace(p, o) ==
  /\ p # o
  /\ Done(p)
  /\ Done(o)
  /\ args[p].tool = "draft_docx_od"
  /\ SameChange(p, o)
  /\ Versions(args[p].quote_number, obs[p].resolved) = {0}
  /\ Versions(args[o].quote_number, obs[o].resolved) = {0}
  /\ obs[p].gate = "absent"
  /\ obs[o].gate = "absent"
  /\ faults = 0

\* C4: two concurrent AddClause commits of the same base and clause that both
\* resolved from the listing {0} end, without a retry, as exactly one Applied
\* and one failure by version collision.
C4_OneAppliedOneCollision ==
  \A p, o \in Procs :
    SameListingRace(p, o) =>
      \/ /\ result[p].kind = "Applied"
         /\ result[o].kind = "Error"
         /\ result[o].detail = "upload failed: duplicate"
      \/ /\ result[o].kind = "Applied"
         /\ result[p].kind = "Error"
         /\ result[p].detail = "upload failed: duplicate"

\* C5: for one base and one semantic marker, at most one invocation ever
\* writes a new revision.
C5_OneWritePerChange ==
  \A p, o \in Procs :
    (p # o /\ SameChange(p, o)) => (obs[p].wrote = {} \/ obs[o].wrote = {})

\* C6: a commit whose listing succeeded and held no revision of the base
\* returns the "no files" failure, having listed once and uploaded nothing.
C6_MissingBase ==
  \A p \in Procs :
    (Done(p) /\ obs[p].why = "empty") =>
      /\ Versions(args[p].quote_number, obs[p].resolved) = {}
      /\ result[p].kind = "NoFiles"
      /\ result[p].ref = <<>>
      /\ obs[p].lists = 1
      /\ obs[p].uploads = 0
      /\ obs[p].wrote = {}

C6_Witness ==
  \E p \in Procs :
    /\ Done(p)
    /\ obs[p].why = "empty"
    /\ obs[p].resolved # {}
    /\ result[p].kind = "NoFiles"

\* C7: the "no files" outcome is returned only when the listing succeeded and
\* held no revision of the base; a failed listing or download returns
\* something else.
C7_NotFoundOnlyWhenEmpty ==
  \A p \in Procs :
    /\ result[p].kind = "NoFiles" => obs[p].why = "empty"
    /\ (Done(p) /\ obs[p].why \in {"list failed", "download failed"})
         => result[p] # Fails(p, "NoFiles", "not found")

\* add_line_item downloaded a document that opens and has no table
NoTableCase(p) ==
  /\ Done(p)
  /\ args[p].tool = "add_line_item"
  /\ loc[p].latest_name # <<>>
  /\ obs[p].why = "none"
  /\ loc[p].stream.kind = "docx"
  /\ loc[p].stream.tables = <<>>

\* C8: add_line_item on a latest revision without a table returns the
\* "no tables" failure and never enters upload_new_version: one listing, no
\* upload, nothing written.
C8_NoTable ==
  \A p \in Procs :
    NoTableCase(p) =>
      /\ result[p].kind = "NoTables"
      /\ obs[p].lists = 1
      /\ obs[p].allocated = {}
      /\ obs[p].uploads = 0
      /\ obs[p].wrote = {}
      /\ loc[p].new_filename = <<>>

C8_Witness ==
  \E p \in Procs :
    /\ NoTableCase(p)
    /\ result[p].kind = "NoTables"
    /\ \E o \in Procs : obs[o].wrote # {}

\* every object of the store is still there, with the same content
Kept == \A n \in DOMAIN store : n \in DOMAIN store' /\ store'[n] = store[n]

\* C9: the store is append-only: no step removes or changes an object; the
\* step that ends a commit Applied adds exactly one object, the one it
\* returns, and that is all the commit wrote; a commit that ends in the no-op
\* wrote nothing, and its last step leaves the store as it is.
C9_AppendOnly ==
  [][/\ Kept
     /\ \A p \in Procs :
          /\ (result'[p].kind = "Applied" /\ result[p].kind # "Applied")
               => /\ DOMAIN store' \ DOMAIN store = {result'[p].ref}
                  /\ obs'[p].wrote = {result'[p].ref}
                  /\ obs'[p].uploads = 1
          /\ (result'[p].kind = "AlreadyExists" /\ result[p].kind # "AlreadyExists")
               => /\ store' = store
                  /\ obs'[p].wrote = {}
    ]_vars

C9_Witness ==
  \E p, o \in Procs :
    /\ result[p].kind = "Applied"
    /\ result[o].kind = "AlreadyExists"
    /\ Cardinality(DOMAIN store) = Cardinality(obs[p].before) + 1
    /\ \A n \in obs[p].before : n \in DOMAIN store

\* C10: a commit that returns a failure has left no new object in the store
\* and has returned no revision name.
C10_NoPartialState ==
  \A p \in Procs :
    (Done(p) /\ result[p].kind = "Error") =>
      /\ obs[p].wrote = {}
      /\ result[p].ref = <<>>

\* C11: when the upload call times out after the store may have acted, the
\* commit lists the store again before it returns, and it never returns the
\* failure for an object that it did write.
C11_RelistAfterTimeout ==
  \A p \in Procs :
    (Done(p) /\ result[p].detail = "upload failed: timeout") =>
      /\ obs[p].lists >= 3
      /\ obs[p].wrote # {} => result[p].kind = "Applied"

\* the name the naming scheme gives revision n of a base
Encode(base, n) == IF n = 0 THEN Name(base, <<>>) ELSE NewFilename(base, n)

\* the base holds "_v" followed by a digit somewhere
HasSuffixPattern(base) ==
  \E k \in 1..(Len(base) - 2) :
    base[k] = "_" /\ base[k + 1] = "v" /\ IsDigit(base[k + 2])

\* C12: naming round trip: for a base without the version-suffix pattern, the
\* name upload_new_version builds for the number n it allocated is
\* encode(base, n), and the pattern of that base reads every encode(base, k),
\* 0 <= k <= n, back as k.
C12_RoundTrip ==
  \A p \in Procs :
    LET base == args[p].quote_number
        n == NextV(base, obs[p].allocated)
    IN (loc[p].new_filename # <<>> /\ ~HasSuffixPattern(base)) =>
         /\ loc[p].new_filename = Encode(base, n)
         /\ \A k \in 0..n : PatternVersion(base, Encode(base, k)) = k

C12_Witness ==
  \E p \in Procs :
    /\ p + 1 \in Procs
    /\ ~HasSuffixPattern(args[p].quote_number)
    /\ result[p].kind = "Applied"
    /\ result[p].ref = Encode(args[p].quote_number, 10)
    /\ args[p + 1].quote_number = args[p].quote_number
    /\ loc[p + 1].latest_name = result[p].ref
    /\ Name(args[p].quote_number, <<>>) \in obs[p].resolved

\* the base ends in "_v" and digits, as a revision name does before ".docx"
EndsInSuffix(base) ==
  \E k \in 1..(Len(base) - 2) :
    /\ base[k] = "_"
    /\ base[k + 1] = "v"
    /\ \A i \in (k + 2)..Len(base) : IsDigit(base[i])

\* C13 as claimed: an object written by a commit for one base is never read
\* as a revision of any other base.
C13_InjectiveAcrossBases ==
  \A p \in Procs :
    \A name \in obs[p].wrote :
      \A other \in Quotes :
        other # args[p].quote_number => PatternVersion(other, name) = NoMatch

\* C13, amended: an object written by a commit for one base is never read as
\* a revision of another base, unless that other base itself ends in "_v" and
\* digits; for its own base it reads as the one number it was allocated.
C13_InjectiveSuffixFree ==
  \A p \in Procs :
    \A name \in obs[p].wrote :
      /\ \A other \in Quotes :
           (other # args[p].quote_number /\ ~EndsInSuffix(other))
             => PatternVersion(other, name) = NoMatch
      /\ name = Encode(args[p].quote_number, PatternVersion(args[p].quote_number, name))

C13_Witness ==
  \E p \in Procs :
    /\ EndsInSuffix(args[p].quote_number)
    /\ result[p].kind = "Applied"
    /\ result[p].ref \in obs[p].wrote
    /\ \E other \in Quotes :
         /\ other # args[p].quote_number
         /\ ~EndsInSuffix(other)
         /\ Versions(other, DOMAIN store) # {}
         /\ PatternVersion(other, result[p].ref) = NoMatch

\* C14: the number upload_new_version allocates is the highest revision
\* number of its listing plus one (1 when the listing holds nothing above
\* revision 0): it is above every listed number, so it is not in the listing
\* and fills no gap.
C14_Allocator ==
  \A p \in Procs :
    loc[p].new_filename # <<>> =>
      LET base == args[p].quote_number
          listing == Versions(base, obs[p].allocated)
          n == PatternVersion(base, loc[p].new_filename)
      IN /\ n = IF listing \subseteq {0} THEN 1 ELSE Max(listing) + 1
         /\ n \notin listing
         /\ \A v \in listing : v < n
         /\ loc[p].new_filename = NewFilename(base, n)

C14_Witness ==
  \E p \in Procs :
    /\ Versions(args[p].quote_number, obs[p].allocated) = {0, 1, 3}
    /\ loc[p].new_filename = NewFilename(args[p].quote_number, 4)
    /\ result[p].kind = "Applied"

\* C15: the resolver picks a listed name whose revision number is the highest
\* of the listing (the unsuffixed name counting as 0), and the tool's
\* "no files" outcome is returned exactly when no listed name is a revision of
\* the base.
C15_Resolver ==
  \A p \in Procs :
    LET base == args[p].quote_number
        listing == Versions(base, obs[p].resolved)
    IN /\ loc[p].latest_name # <<>> =>
            /\ loc[p].latest_name \in obs[p].resolved
            /\ PatternVersion(base, loc[p].latest_name) = Max(listing)
       /\ obs[p].lists >= 1 => (result[p].kind = "NoFiles" <=> listing = {})

\* C16: within one commit the store is listed once: the allocator works on
\* the listing the resolver took.
C16_SingleSnapshot ==
  \A p \in Procs :
    /\ obs[p].lists <= 1
    /\ loc[p].new_filename # <<>> => obs[p].allocated = obs[p].resolved

\* C17: the revision number a commit that ends Applied has written is the
\* highest revision number of the listing its resolve step took, plus one
\* (stated for runs in which no store call failed).
C17_OneAboveResolved ==
  \A p \in Procs :
    (faults = 0 /\ result[p].kind = "Applied") =>
      PatternVersion(args[p].quote_number, result[p].ref)
        = Max(Versions(args[p].quote_number, obs[p].resolved)) + 1

\* the names an invocation counted as revisions of its quote, in either listing
Counted(p) ==
  Candidates(args[p].quote_number, obs[p].resolved)
    \cup Candidates(args[p].quote_number, obs[p].allocated)

\* C18: a listed name counts as a revision only in its canonical spelling (no
\* leading zeros, a numeric suffix), so no two names count as the same
\* revision of one base.
C18_StrictDecode ==
  \A p \in Procs :
    LET base == args[p].quote_number
    IN /\ \A name \in Counted(p) : name = Encode(base, PatternVersion(base, name))
       /\ \A n1, n2 \in Counted(p) :
            n1 # n2 => PatternVersion(base, n1) # PatternVersion(base, n2)

\* the document holds the edit that invocation p asked for
HasEdit(doc, p) ==
  /\ doc.kind = "docx"
  /\ IF args[p].tool = "draft_docx_od"
     THEN \E i \in DOMAIN doc.paras : doc.paras[i] = Heading(loc[p].found_key)
     ELSE /\ doc.tables # <<>>
          /\ \E r \in DOMAIN doc.tables[1].rows :
               /\ doc.tables[1].rows[r][1] = args[p].item_name
               /\ doc.tables[1].rows[r][3] = args[p].price

\* C19: no lost update: once every commit has finished (no store call having
\* failed), the latest revision of a base holds the edit of every commit on
\* it that returned Applied.
C19_NoLostUpdate ==
  (faults = 0 /\ \A p \in Procs : Done(p)) =>
    \A p \in Procs :
      result[p].kind = "Applied" =>
        \A name \in LatestNames(args[p].quote_number, DOMAIN store) :
          HasEdit(store[name], p)

\* no title of the clause dictionary is contained in the clause name
UnknownClause(p) ==
  /\ args[p].tool = "draft_docx_od"
  /\ \A i \in DOMAIN load_clauses :
       ~Contains(Lower(args[p].clause_name), Lower(load_clauses[i].title))

\* C20: draft_docx_od with a clause name that contains no known title returns
\* the clause-not-found failure with the available titles, before any store
\* access: no listing, no download, no upload, nothing written.
C20_UnknownClause ==
  \A p \in Procs :
    UnknownClause(p) =>
      /\ Done(p)
      /\ result[p].kind = "ClauseNotFound"
      /\ result[p].isError
      /\ result[p].options = [i \in DOMAIN load_clauses |-> load_clauses[i].title]
      /\ obs[p].lists = 0
      /\ obs[p].uploads = 0
      /\ obs[p].wrote = {}
      /\ obs[p].resolved = {}
      /\ loc[p].latest_name = <<>>
      /\ DOMAIN store \ obs[p].before
           = UNION {obs[o].wrote : o \in Procs \ {p}} \ obs[p].before

C20_Witness ==
  \E p \in Procs :
    /\ UnknownClause(p)
    /\ result[p].kind = "ClauseNotFound"
    /\ Len(result[p].options) = 2
    /\ store # <<>>
    /\ \E o \in Procs : o # p /\ result[o].kind = "Applied"

====
